---- MODULE Spec2Model ----
(***************************************************************************)
(* Membrane fouling batch processor: the calculation engine of src/mf.py   *)
(* and the Qt batch orchestrator of src/ui.py (MFWidget, FileWorker,       *)
(* CSVWorker).                                                             *)
(*                                                                         *)
(* Strings are sequences of one-character strings, so that split, join,    *)
(* sorted and the number formats are computed the way Python computes      *)
(* them.  Python floats are exact rationals [n, d] (d > 0, reduced); the   *)
(* files of the model hold integer literals only, for which the two agree  *)
(* on every value the model formats.                                       *)
(***************************************************************************)
EXTENDS Integers, Sequences, FiniteSets, TLC

(***************************************************************************)
(* Strings                                                                 *)
(***************************************************************************)

\* Code point of a character (Python compares str by code point).
Ord(c) ==
  CASE c = "," -> 44 [] c = "-" -> 45 [] c = "." -> 46 [] c = "/" -> 47
    [] c = "0" -> 48 [] c = "1" -> 49 [] c = "2" -> 50 [] c = "3" -> 51
    [] c = "4" -> 52 [] c = "5" -> 53 [] c = "6" -> 54 [] c = "7" -> 55
    [] c = "8" -> 56 [] c = "9" -> 57
    [] c = "D" -> 68 [] c = "F" -> 70 [] c = "H" -> 72 [] c = "I" -> 73
    [] c = "S" -> 83 [] c = "T" -> 84 [] c = "V" -> 86
    [] c = "a" -> 97 [] c = "b" -> 98 [] c = "c" -> 99 [] c = "d" -> 100
    [] c = "k" -> 107 [] c = "o" -> 111 [] c = "x" -> 120

\* s < t for Python str: lexicographic by code point, a proper prefix first.
RECURSIVE StrLess(_, _)
StrLess(s, t) ==
  IF t = <<>> THEN FALSE
  ELSE IF s = <<>> THEN TRUE
  ELSE IF Head(s) = Head(t) THEN StrLess(Tail(s), Tail(t))
  ELSE Ord(Head(s)) < Ord(Head(t))

\* sorted(keys): the keys in ascending order.
RECURSIVE SortedSet(_)
SortedSet(S) ==
  IF S = {} THEN <<>>
  ELSE LET m == CHOOSE x \in S : \A y \in S \ {x} : StrLess(x, y)
       IN  <<m>> \o SortedSet(S \ {m})

Range(q) == { q[i] : i \in 1..Len(q) }

Sorted(keys) == SortedSet(Range(keys))

\* s.split(","): the pieces of s between commas (always at least one piece).
RECURSIVE SplitFrom(_, _, _)
SplitFrom(s, i, cur) ==
  IF i > Len(s) THEN <<cur>>
  ELSE IF s[i] = "," THEN <<cur>> \o SplitFrom(s, i + 1, <<>>)
  ELSE SplitFrom(s, i + 1, Append(cur, s[i]))

Split(s) == SplitFrom(s, 1, <<>>)

\* ",".join(parts)
RECURSIVE Join(_)
Join(parts) ==
  IF parts = <<>> THEN <<>>
  ELSE IF Len(parts) = 1 THEN parts[1]
  ELSE parts[1] \o <<",">> \o Join(Tail(parts))

(***************************************************************************)
(* Numbers                                                                 *)
(***************************************************************************)

Abs(x) == IF x < 0 THEN -x ELSE x

RECURSIVE Gcd(_, _)
Gcd(a, b) == IF b = 0 THEN a ELSE Gcd(b, a % b)

\* The rational n/d, reduced, with a positive denominator (d # 0).
Rat(n, d) ==
  LET g == Gcd(Abs(n), Abs(d))
      s == IF d < 0 THEN -1 ELSE 1
  IN  [n |-> s * (n \div g), d |-> s * (d \div g)]

RInt(k) == [n |-> k, d |-> 1]
RAdd(a, b) == Rat(a.n * b.d + b.n * a.d, a.d * b.d)
RSub(a, b) == Rat(a.n * b.d - b.n * a.d, a.d * b.d)
RMul(a, b) == Rat(a.n * b.n, a.d * b.d)
\* a / b, b # 0
RDiv(a, b) == Rat(a.n * b.d, a.d * b.n)

DigitChar(k) ==
  CASE k = 0 -> "0" [] k = 1 -> "1" [] k = 2 -> "2" [] k = 3 -> "3"
    [] k = 4 -> "4" [] k = 5 -> "5" [] k = 6 -> "6" [] k = 7 -> "7"
    [] k = 8 -> "8" [] k = 9 -> "9"

DigitVal(c) == Ord(c) - 48

IsDigit(c) == c \in {"0", "1", "2", "3", "4", "5", "6", "7", "8", "9"}

\* The decimal digits of a natural number.
RECURSIVE Digits(_)
Digits(k) ==
  IF k < 10 THEN <<DigitChar(k)>>
  ELSE Append(Digits(k \div 10), DigitChar(k % 10))

\* The decimal digits of k, left-padded with zeros to width w.
RECURSIVE Pad(_, _)
Pad(s, w) == IF Len(s) >= w THEN s ELSE Pad(<<"0">> \o s, w)

RECURSIVE Pow10(_)
Pow10(k) == IF k = 0 THEN 1 ELSE 10 * Pow10(k - 1)

\* f'{x:.kf}' (k >= 1): sign, integer part, '.', k digits; the value is rounded
\* to the nearest multiple of 10^-k, a tie to the even one; a negative value
\* keeps its sign even when it rounds to zero.
Format(x, k) ==
  LET a   == Abs(x.n)
      ip  == a \div x.d
      r   == a % x.d
      sc  == r * Pow10(k)
      f0  == sc \div x.d
      rem == sc % x.d
      up  == (2 * rem > x.d) \/ (2 * rem = x.d /\ f0 % 2 = 1)
      f1  == IF up THEN f0 + 1 ELSE f0
      ip1 == IF f1 = Pow10(k) THEN ip + 1 ELSE ip
      f2  == IF f1 = Pow10(k) THEN 0 ELSE f1
      sg  == IF x.n < 0 THEN <<"-">> ELSE <<>>
  IN  sg \o Digits(ip1) \o <<".">> \o Pad(Digits(f2), k)

\* str(x) of a float holding an integer value: '3.0', '-2.0'.
StrFloat(x) ==
  (IF x.n < 0 THEN <<"-">> ELSE <<>>) \o Digits(Abs(x.n)) \o <<".", "0">>

\* Results of operations that can raise.
Err == [ok |-> FALSE]
Ok(v) == [ok |-> TRUE, v |-> v]

RECURSIVE DigitsValue(_, _)
DigitsValue(s, acc) ==
  IF s = <<>> THEN acc ELSE DigitsValue(Tail(s), 10 * acc + DigitVal(Head(s)))

\* float(token) for the literals of the model: an optional '-' and one or more
\* digits; anything else (the empty string, a letter) raises ValueError.
ParseFloat(tok) ==
  LET neg  == tok # <<>> /\ Head(tok) = "-"
      body == IF neg THEN Tail(tok) ELSE tok
  IN  IF body # <<>> /\ \A i \in 1..Len(body) : IsDigit(body[i])
      THEN Ok(IF neg THEN -DigitsValue(body, 0) ELSE DigitsValue(body, 0))
      ELSE Err

(***************************************************************************)
(* src/mf.py: the record of one test run and the derived metrics           *)
(***************************************************************************)

\* class Column(IntEnum)
TIME == 0
PRESSURE == 1
VOLUME == 2
TEMPERATURE == 3

\* line.split(",")[1]: IndexError when the line holds no comma.
HeaderField(line) ==
  LET p == Split(line) IN IF Len(p) >= 2 THEN Ok(p[2]) ELSE Err

\* float(line.split(",")[1])
HeaderFloat(line) ==
  LET f == HeaderField(line) IN IF f.ok THEN ParseFloat(f.v) ELSE Err

\* MembraneFouling.__init__: the six header lines; data starts empty.
MembraneFouling(date, time, sdi, ti, tf, status) ==
  LET d  == HeaderField(date)
      t  == HeaderField(time)
      s  == HeaderFloat(sdi)
      i  == HeaderFloat(ti)
      f  == HeaderFloat(tf)
      st == HeaderField(status)
  IN  IF d.ok /\ t.ok /\ s.ok /\ i.ok /\ f.ok /\ st.ok
      THEN Ok([date |-> d.v, time |-> t.v, sdi |-> RInt(s.v), ti |-> RInt(i.v),
               tf |-> RInt(f.v), status |-> st.v, data |-> <<>>])
      ELSE Err

\* [float(x) for x in raw.split(",")]: the row, whatever its length, or
\* ValueError; the row is not checked to have four fields.
RECURSIVE FloatList(_)
FloatList(toks) ==
  IF toks = <<>> THEN Ok(<<>>)
  ELSE LET h == ParseFloat(Head(toks))
           r == FloatList(Tail(toks))
       IN  IF h.ok /\ r.ok THEN Ok(<<h.v>> \o r.v) ELSE Err

\* MembraneFouling.add_data
add_data(mf, raw) ==
  LET row == FloatList(Split(raw))
  IN  IF row.ok THEN Ok([mf EXCEPT !.data = Append(@, row.v)]) ELSE Err

\* The loop of search_index from position n (0-based) with the running best at
\* position ci: a strictly closer row replaces it; d[column] raises IndexError
\* on a row that is too short.
RECURSIVE SearchScan(_, _, _, _, _)
SearchScan(data, column, value, n, ci) ==
  IF n >= Len(data) THEN Ok([index |-> ci, row |-> data[ci + 1]])
  ELSE LET d == data[n + 1]
           c == data[ci + 1]
       IN  IF Len(d) <= column \/ Len(c) <= column THEN Err
           ELSE IF Abs(d[column + 1] - value) < Abs(c[column + 1] - value)
                THEN SearchScan(data, column, value, n + 1, n)
                ELSE SearchScan(data, column, value, n + 1, ci)

\* MembraneFouling.search_index: seeded with data[1] (IndexError on fewer than
\* two rows), scanning from position 0.
search_index(data, column, value) ==
  IF Len(data) < 2 THEN Err ELSE SearchScan(data, column, value, 0, 1)

\* MembraneFouling.search
search(data, column, value) ==
  LET r == search_index(data, column, value)
  IN  IF r.ok THEN Ok(r.v.row) ELSE Err

\* row[column], IndexError on a short row.
At(row, column) == IF Len(row) > column THEN Ok(row[column + 1]) ELSE Err

\* calc_ti returning the VOLUME of the sample it found, not its TIME.
calc_ti_volume(data) ==
  LET s == search(data, VOLUME, 500)
  IN  IF s.ok THEN At(s.v, VOLUME) ELSE Err

\* MembraneFouling.calc_ti
calc_ti(data) ==
  LET s == search(data, VOLUME, 500)
  IN  IF s.ok THEN At(s.v, TIME) ELSE Err

\* calc_tf5 (secs = 5*60) and calc_tf15 (secs = 15*60)
calc_tf(data, secs) ==
  LET s1 == search(data, TIME, secs)
      v  == IF s1.ok THEN At(s1.v, VOLUME) ELSE Err
      s2 == IF v.ok THEN search(data, VOLUME, v.v + 500) ELSE Err
      t  == IF s2.ok THEN At(s2.v, TIME) ELSE Err
  IN  IF t.ok THEN Ok(t.v - secs) ELSE Err

calc_tf5(data) == calc_tf(data, 5 * 60)

calc_tf15(data) == calc_tf(data, 15 * 60)

\* A division that does not raise: a tf of 0 gives the value 0.
calc_sdi_silent(data, tf, minutes) ==
  LET ti == calc_ti(data)
  IN  IF ~ti.ok \/ ~tf.ok THEN Err
      ELSE IF tf.v = 0 THEN Ok(RInt(0))
      ELSE Ok(RDiv(RMul(RSub(RInt(1), Rat(ti.v, tf.v)), RInt(100)), RInt(minutes)))

\* (1 - calc_ti() / tf) * 100 / minutes, ZeroDivisionError when tf is 0.
calc_sdi(data, tf, minutes) ==
  LET ti == calc_ti(data)
  IN  IF ~ti.ok \/ ~tf.ok THEN Err
      ELSE IF tf.v = 0 THEN Err
      ELSE Ok(RDiv(RMul(RSub(RInt(1), Rat(ti.v, tf.v)), RInt(100)), RInt(minutes)))

calc_sdi15(data) == calc_sdi(data, calc_tf15(data), 15)

calc_sdi5(data) == calc_sdi(data, calc_tf5(data), 5)

RECURSIVE SumCol(_, _)
SumCol(data, column) ==
  IF data = <<>> THEN 0 ELSE data[1][column + 1] + SumCol(Tail(data), column)

\* MembraneFouling.calc_avg_temp: IndexError on a row without a fourth field,
\* ZeroDivisionError on no rows.
calc_avg_temp(data) ==
  IF data = <<>> \/ \E i \in 1..Len(data) : Len(data[i]) <= TEMPERATURE THEN Err
  ELSE Ok(Rat(SumCol(data, TEMPERATURE), Len(data)))

\* data[lo : hi + 1] for 0-based lo, hi: empty when lo > hi.
Slice(data, lo, hi) ==
  IF lo > hi THEN <<>> ELSE [i \in 1..(hi - lo + 1) |-> data[lo + i]]

RECURSIVE RSum(_)
RSum(q) == IF q = <<>> THEN RInt(0) ELSE RAdd(Head(q), RSum(Tail(q)))

\* LinearRegression().fit(x, y).coef_[0]: the least-squares slope; with no
\* variation in x (a single point included) the fit's minimum-norm solution is
\* the slope 0.
Slope(xs, ys) ==
  LET n   == RInt(Len(xs))
      sx  == RSum(xs)
      sy  == RSum(ys)
      sxy == RSum([i \in 1..Len(xs) |-> RMul(xs[i], ys[i])])
      sxx == RSum([i \in 1..Len(xs) |-> RMul(xs[i], xs[i])])
      den == RSub(RMul(n, sxx), RMul(sx, sx))
      num == RSub(RMul(n, sxy), RMul(sx, sy))
  IN  IF den.n = 0 THEN RInt(0) ELSE RDiv(num, den)

\* MembraneFouling.calc_mfi: the rows between the rows nearest TIME 300 and
\* TIME 900; x = VOLUME/1000, y = TIME/(VOLUME/1000) (ZeroDivisionError on a
\* VOLUME of 0, IndexError on a short row); fit raises ValueError on no rows.
calc_mfi(data) ==
  LET a == search_index(data, TIME, 5 * 60)
      b == search_index(data, TIME, 15 * 60)
  IN  IF ~a.ok \/ ~b.ok THEN Err
      ELSE LET w == Slice(data, a.v.index, b.v.index)
           IN  IF \E i \in 1..Len(w) : Len(w[i]) <= VOLUME \/ w[i][VOLUME + 1] = 0
               THEN Err
               ELSE IF w = <<>> THEN Err
               ELSE LET xs == [i \in 1..Len(w) |-> Rat(w[i][VOLUME + 1], 1000)]
                        ys == [i \in 1..Len(w) |->
                                 RDiv(RInt(w[i][TIME + 1]), xs[i])]
                    IN  Ok(Slope(xs, ys))

(***************************************************************************)
(* The files on disk                                                       *)
(***************************************************************************)

\* A sample line "t,p,v,c" of non-negative integers.
Row(t, p, v, c) == Join(<<Digits(t), Digits(p), Digits(v), Digits(c)>>)

\* The eight lines before the samples: title, six "<label>,<value>" lines,
\* column titles.
Preamble ==
  << <<"H">>, <<"D", ",", "7">>, <<"T", ",", "9">>, <<"S", ",", "3">>,
     <<"I", ",", "1">>, <<"F", ",", "2">>, <<"V", ",", "o", "k">>, <<"H">> >>

\* A well-formed run (the samples of the metric check of the documentation).
GoodRun ==
  [readable |-> TRUE,
   lines |-> Preamble \o << Row(0, 0, 0, 20), Row(300, 0, 150, 20),
                            Row(600, 0, 500, 20), Row(900, 0, 700, 20),
                            Row(1200, 0, 1000, 20) >>]

\* Another well-formed run.
GoodRun2 ==
  [readable |-> TRUE,
   lines |-> Preamble \o << Row(0, 0, 100, 21), Row(300, 0, 250, 21),
                            Row(600, 0, 500, 22), Row(900, 0, 1000, 22),
                            Row(1200, 0, 1500, 24) >>]

\* A run with a non-numeric sample field.
BadRowRun ==
  [readable |-> TRUE,
   lines |-> Preamble \o << Row(0, 0, 0, 20), <<"3", "0", "0", ",", "x", ",",
                            "1", ",", "2">>, Row(600, 0, 500, 20) >>]

\* A run whose tf5 is 0: the sample nearest VOLUME 600 + 500 is the one at
\* TIME 300.
TfZeroRun ==
  [readable |-> TRUE,
   lines |-> Preamble \o << Row(0, 0, 0, 20), Row(300, 0, 600, 20) >>]

\* A directory entry that cannot be opened for reading (a sub-directory).
Unreadable == [readable |-> FALSE, lines |-> <<>>]

FileA == <<"a">>
FileB == <<"b">>
FileC == <<"c">>

\* The directories the user can select, each a map from file name to content.
Disk ==
  [d1 |-> (FileA :> GoodRun) @@ (FileB :> GoodRun2),
   d2 |-> (FileA :> BadRowRun),
   d3 |-> (FileB :> TfZeroRun) @@ (FileC :> GoodRun)]

Dirs == DOMAIN Disk

\* The orders os.listdir can return the names of a directory in (any order).
Listings(d) ==
  LET names == DOMAIN Disk[d]
      n     == Cardinality(names)
  IN  { q \in [1..n -> names] : \A i, j \in 1..n : i # j => q[i] # q[j] }

(***************************************************************************)
(* src/ui.py: FileWorker                                                   *)
(***************************************************************************)

RECURSIVE AddAll(_, _)
AddAll(mf, rows) ==
  IF rows = <<>> THEN Ok(mf)
  ELSE LET r == add_data(mf, Head(rows))
       IN  IF r.ok THEN AddAll(r.v, Tail(rows)) ELSE Err

\* FileWorker.parse on a file given as data.strip().split("\n"): open raises
\* on a missing or unreadable file, the constructor takes lines[1:7] (TypeError
\* on fewer than six of them), every line of lines[8:] goes to add_data.
Parse(file) ==
  IF ~file.readable THEN Err
  ELSE LET lines == file.lines
       IN  IF Len(lines) < 7 THEN Err
           ELSE LET mf == MembraneFouling(lines[2], lines[3], lines[4],
                                          lines[5], lines[6], lines[7])
                IN  IF ~mf.ok THEN Err
                    ELSE AddAll(mf.v, SubSeq(lines, 9, Len(lines)))

\* The signal FileWorker.run ends with when the file it opens is f: result(data)
\* with the fourteen fields, or error(filename) on any exception.
Result(filename, f) ==
  LET p    == Parse(f)
      err  == [sig |-> "error", arg |-> filename]
  IN  IF ~p.ok THEN err
      ELSE LET mf    == p.v
               ti    == calc_ti(mf.data)
               tf5   == calc_tf5(mf.data)
               tf15  == calc_tf15(mf.data)
               sdi5  == calc_sdi5(mf.data)
               sdi15 == calc_sdi15(mf.data)
               mfi   == calc_mfi(mf.data)
               avg   == calc_avg_temp(mf.data)
           IN  IF ti.ok /\ tf5.ok /\ tf15.ok /\ sdi5.ok /\ sdi15.ok /\ mfi.ok
                  /\ avg.ok
               THEN [sig |-> "result",
                     arg |-> << filename, mf.date, mf.time, StrFloat(mf.sdi),
                                StrFloat(mf.ti), StrFloat(mf.tf), mf.status,
                                Format(RInt(ti.v), 3), Format(RInt(tf5.v), 3),
                                Format(RInt(tf15.v), 3), Format(sdi5.v, 2),
                                Format(sdi15.v, 2), Format(mfi.v, 3),
                                Format(avg.v, 3) >>]
               ELSE err

\* FileWorker(path, filename).run: the file is os.path.join(path, filename), a
\* name the folder does not hold cannot be opened.
Run(path, filename) ==
  Result(filename, IF filename \in DOMAIN Disk[path] THEN Disk[path][filename]
                   ELSE Unreadable)

\* What FileWorker(path, filename).run emits, for every folder and file name.
Emits ==
  [d \in Dirs |-> [f \in UNION { DOMAIN Disk[e] : e \in Dirs } |-> Run(d, f)]]

(***************************************************************************)
(* src/ui.py: MFWidget, the thread pool and the CSV worker                 *)
(***************************************************************************)

\* Bounds of the model: how many times each button is clicked.
MaxLoads == 2
MaxCalcs == 2
MaxExports == 1

\* self.table_headers
table_headers ==
  << <<"F", "i", "l", "e">>, <<"D", "a", "t", "e">>, <<"T", "i", "m", "e">>,
     <<"s", "d", "i">>, <<"t", "i">>, <<"t", "f">>,
     <<"s", "t", "a", "t", "u", "s">>,
     <<"c", "a", "l", "c", "_", "t", "i">>,
     <<"c", "a", "l", "c", "_", "t", "f", "5">>,
     <<"c", "a", "l", "c", "_", "t", "f", "1", "5">>,
     <<"c", "a", "l", "c", "_", "s", "d", "i", "5">>,
     <<"c", "a", "l", "c", "_", "s", "d", "i", "1", "5">>,
     <<"c", "a", "l", "c", "_", "m", "f", "i">>,
     <<"c", "a", "l", "c", "_", "a", "v", "g", "_", "t", "e", "m", "p">> >>

\* os.path.join(self.path, self.filename) of the CSV worker: the export folder
\* is the working directory, an absolute path, so it is no name of a listing.
FullPath == <<"/", "o">>

VARIABLES
  dir,          \* self.dir
  data,         \* self.data: [keys: insertion order, val: key -> fields]
  state,        \* self.state: key -> "NEW" | "DONE" | "ERROR"
  tableWidget,  \* self.tableWidget: [rowCount, items: the rows that hold items]
  pool,         \* FileWorkers started whose signal is not delivered yet
  main,         \* where the main thread is: idle, or inside update_row
  csv,          \* the CSVWorker
  csvfile,      \* the lines of the file of the CSVWorker, until its signal
                \* is delivered
  nLoads,       \* load_files calls so far; names the dict objects of self.data
  nCalcs,       \* calculate calls so far
  nExports,     \* export_csv calls so far
  calcsInBatch, \* history: calculate calls since the last load_files
  writes,       \* history: deliveries from this batch's workers, per file name
  csvSeen,      \* history: the DONE entries at each instant of the export
  emits,        \* Emits, worked out once: the files on disk do not change
  file,         \* engine on its own: the file a FileWorker is given
  mf,           \* engine on its own: the outcome of FileWorker.parse
  res           \* engine on its own: the last operation applied and its outcome

vars == << dir, data, state, tableWidget, pool, main, csv, csvfile, nLoads,
           nCalcs, nExports, calcsInBatch, writes, csvSeen, emits,
           file, mf, res >>

Names == UNION { DOMAIN Disk[d] : d \in Dirs }

\* The FileWorkers there can be: batch is the load_files call whose table the
\* worker was started for (history), path and filename are its fields.
Workers ==
  { [batch |-> b, path |-> d, filename |-> f] :
      b \in 1..MaxLoads, d \in Dirs, f \in Names }

NoWorker == [batch |-> 0, path |-> "", filename |-> <<>>]

Keys(d) == Range(d.keys)

EmptyDict == [keys |-> <<>>, val |-> <<>>]

\* d[k] = v on a Python dict: a new key goes last, an old one keeps its place.
SetItem(d, k, v) ==
  IF k \in Keys(d) THEN [d EXCEPT !.val[k] = v]
  ELSE [keys |-> Append(d.keys, k), val |-> d.val @@ (k :> v)]

\* s[k] = v on the state dict (never iterated, so its order is not kept).
SetState(s, k, v) ==
  IF k \in DOMAIN s THEN [s EXCEPT ![k] = v] ELSE s @@ (k :> v)

\* An entry whose fields are all blank, the first one included.
BlankFields_all(filename) == [i \in 1..Len(table_headers) |-> <<>>]

\* [filename] + [''] * (len(self.table_headers) - 1)
BlankFields(filename) ==
  <<filename>> \o [i \in 1..(Len(table_headers) - 1) |-> <<>>]

\* The entries in state DONE, each with its fields.
DoneEntries(d, s) ==
  [k \in { x \in Keys(d) : x \in DOMAIN s /\ s[x] = "DONE" } |-> d.val[k]]

\* MFWidget.update_table: clear() removes every item and keeps the rows; one
\* row per key of sorted(self.data.keys()) is then filled, a row being inserted
\* only when the widget has none at that position.
update_table(tw, d, s) ==
  LET ks == Sorted(d.keys)
      n  == Len(ks)
  IN  [rowCount |-> IF n > tw.rowCount THEN n ELSE tw.rowCount,
       items |-> [r \in 1..n |->
                    LET fields == d.val[ks[r]]
                    IN  [text |-> [i \in 1..Len(table_headers) |-> fields[i]],
                         state |-> IF fields[1] \in DOMAIN s THEN s[fields[1]]
                                   ELSE "KeyError"]]]

\* No CSVWorker: pc is where its run is, gen the load_files call whose dicts it
\* was given, d and s those dicts once load_files has rebound self.data and
\* self.state, n0 and i the size and position of its dict iterator, cur the
\* item it fetched.
NoCsv ==
  [pc |-> "none", gen |-> 0, n0 |-> 0, i |-> 0, cur |-> <<>>,
   d |-> EmptyDict, s |-> <<>>]

Idle == [pc |-> "idle", w |-> NoWorker]

\* No file given to the engine on its own, nothing parsed, nothing applied.
NoFile == [name |-> <<>>, readable |-> FALSE, lines |-> <<>>]
NotParsed == [done |-> FALSE, r |-> Err]
NoRes == [op |-> "none", column |-> 0, value |-> 0, out |-> Err]

\* MFWidget.__init__
WidgetInit ==
  /\ dir = ""
  /\ data = EmptyDict
  /\ state = <<>>
  /\ tableWidget = [rowCount |-> 0, items |-> <<>>]
  /\ pool = [w \in Workers |-> 0]
  /\ main = Idle
  /\ csv = NoCsv
  /\ csvfile = <<>>
  /\ nLoads = 0
  /\ nCalcs = 0
  /\ nExports = 0
  /\ calcsInBatch = 0
  /\ writes = [f \in Names |-> 0]
  /\ csvSeen = {}
  /\ emits = Emits

Init == WidgetInit /\ file = NoFile /\ mf = NotParsed /\ res = NoRes

\* The CSVWorker is started and its run has not ended.
CsvActive == csv.pc \in {"queued", "next", "check"}

\* The CSVWorker reads the dict objects it was given: self.data and self.state
\* while no load_files has rebound them, and the old objects afterwards.
CsvData == IF csv.gen = nLoads THEN data ELSE csv.d
CsvState == IF csv.gen = nLoads THEN state ELSE csv.s

\* History: the DONE entries of the table (d, s) join the instants of a running
\* export.
Seen(d, s) == IF CsvActive THEN csvSeen \cup {DoneEntries(d, s)} ELSE csvSeen

\* load_files without its two statements self.data = {} and self.state = {}:
\* the listed names are set in the dicts of the previous batch.
load_files_keeps(d, files) ==
  /\ main.pc = "idle"
  /\ nLoads < MaxLoads
  /\ dir' = d
  /\ data' = [keys |-> data.keys
                        \o SelectSeq(files, LAMBDA f : f \notin Keys(data)),
              val |-> [f \in Keys(data) \cup Range(files) |->
                         IF f \in Range(files) THEN BlankFields(f)
                         ELSE data.val[f]]]
  /\ state' = [f \in DOMAIN state \cup Range(files) |->
                 IF f \in Range(files) THEN "NEW" ELSE state[f]]
  /\ tableWidget' = update_table(tableWidget, data', state')
  /\ nLoads' = nLoads + 1
  /\ csv' = csv
  /\ calcsInBatch' = 0
  /\ writes' = [f \in Names |-> 0]
  /\ csvSeen' = Seen(data', state')
  /\ UNCHANGED << pool, main, csvfile, nCalcs, nExports, emits, file, mf, res >>

\* MFWidget.load_files with folder d selected and os.listdir returning files.
load_files(d, files) ==
  /\ main.pc = "idle"
  /\ nLoads < MaxLoads
  /\ dir' = d
  /\ data' = [keys |-> files, val |-> [f \in Range(files) |-> BlankFields(f)]]
  /\ state' = [f \in Range(files) |-> "NEW"]
  /\ tableWidget' = update_table(tableWidget, data', state')
  /\ nLoads' = nLoads + 1
  /\ csv' = IF CsvActive /\ csv.gen = nLoads
            THEN [csv EXCEPT !.d = data, !.s = state] ELSE csv
  /\ calcsInBatch' = 0
  /\ writes' = [f \in Names |-> 0]
  /\ csvSeen' = Seen(data', state')
  /\ UNCHANGED << pool, main, csvfile, nCalcs, nExports, emits, file, mf, res >>

\* MFWidget.calculate: one FileWorker per key of the table, whatever its state.
calculate ==
  /\ main.pc = "idle"
  /\ nCalcs < MaxCalcs
  /\ pool' = [w \in Workers |->
                IF w.batch = nLoads /\ w.path = dir /\ w.filename \in Keys(data)
                THEN pool[w] + 1 ELSE pool[w]]
  /\ nCalcs' = nCalcs + 1
  /\ calcsInBatch' = calcsInBatch + 1
  /\ UNCHANGED << dir, data, state, tableWidget, main, csv, csvfile, nLoads,
                  nExports, writes, csvSeen, emits, file, mf, res >>

\* History: a delivery from worker w is counted when w is of the current batch.
Counted(w) ==
  IF w.batch = nLoads THEN [writes EXCEPT ![w.filename] = @ + 1] ELSE writes

\* FileWorker.run of worker w ended with result(data), and the main thread runs
\* the first statement of MFWidget.update_row: self.data[data[0]] = data.  (The
\* run reads only the worker's own file, so it is one step with the delivery
\* of its signal; the workers finish in any order.)
update_row_data(w) ==
  /\ main.pc = "idle"
  /\ pool[w] > 0
  /\ emits[w.path][w.filename].sig = "result"
  /\ pool' = [pool EXCEPT ![w] = @ - 1]
  /\ data' = SetItem(data, emits[w.path][w.filename].arg[1],
                     emits[w.path][w.filename].arg)
  /\ main' = [pc |-> "update_row", w |-> w]
  /\ writes' = Counted(w)
  /\ csvSeen' = Seen(data', state)
  /\ UNCHANGED << dir, state, tableWidget, csv, csvfile, nLoads, nCalcs,
                  nExports, calcsInBatch, emits, file, mf, res >>

\* MFWidget.update_row, second statement: self.state[data[0]] = State.DONE
update_row_state ==
  /\ main.pc = "update_row"
  /\ state' = SetState(state, emits[main.w.path][main.w.filename].arg[1], "DONE")
  /\ main' = Idle
  /\ csvSeen' = Seen(data, state')
  /\ UNCHANGED << dir, data, tableWidget, pool, csv, csvfile, nLoads, nCalcs,
                  nExports, calcsInBatch, writes, emits, file, mf, res >>

\* A failure that is not contained: the error ends the whole thread pool, so
\* the workers still pending never deliver.
update_error_aborts(w) ==
  /\ main.pc = "idle"
  /\ pool[w] > 0
  /\ emits[w.path][w.filename].sig = "error"
  /\ pool' = [x \in Workers |-> 0]
  /\ state' = SetState(state, emits[w.path][w.filename].arg, "ERROR")
  /\ writes' = Counted(w)
  /\ csvSeen' = Seen(data, state')
  /\ UNCHANGED << dir, data, tableWidget, main, csv, csvfile, nLoads, nCalcs,
                  nExports, calcsInBatch, emits, file, mf, res >>

\* A failure that is lost: the worker ends and update_error writes no state
\* (the error signal is connected to nothing).
update_error_lost(w) ==
  /\ main.pc = "idle"
  /\ pool[w] > 0
  /\ emits[w.path][w.filename].sig = "error"
  /\ pool' = [pool EXCEPT ![w] = @ - 1]
  /\ writes' = Counted(w)
  /\ UNCHANGED << dir, data, state, tableWidget, main, csv, csvfile, nLoads,
                  nCalcs, nExports, calcsInBatch, csvSeen, emits,
                  file, mf, res >>

\* FileWorker.run of worker w ended with error(filename), and the main thread
\* runs MFWidget.update_error: self.state[filename] = State.ERROR.
update_error(w) ==
  /\ main.pc = "idle"
  /\ pool[w] > 0
  /\ emits[w.path][w.filename].sig = "error"
  /\ pool' = [pool EXCEPT ![w] = @ - 1]
  /\ state' = SetState(state, emits[w.path][w.filename].arg, "ERROR")
  /\ writes' = Counted(w)
  /\ csvSeen' = Seen(data, state')
  /\ UNCHANGED << dir, data, tableWidget, main, csv, csvfile, nLoads, nCalcs,
                  nExports, calcsInBatch, emits, file, mf, res >>

\* The timer's timeout: MFWidget.update_table.
timeout ==
  /\ main.pc = "idle"
  /\ tableWidget' = update_table(tableWidget, data, state)
  /\ UNCHANGED << dir, data, state, pool, main, csv, csvfile, nLoads, nCalcs,
                  nExports, calcsInBatch, writes, csvSeen, emits,
                  file, mf, res >>

\* MFWidget.export_csv: a CSVWorker holding self.data and self.state is started
\* (one CSVWorker at a time in the model).
export_csv ==
  /\ main.pc = "idle"
  /\ nExports < MaxExports
  /\ csv.pc = "none"
  /\ csv' = [NoCsv EXCEPT !.pc = "queued", !.gen = nLoads]
  /\ csvfile' = <<>>
  /\ nExports' = nExports + 1
  /\ csvSeen' = {DoneEntries(data, state)}
  /\ UNCHANGED << dir, data, state, tableWidget, pool, main, nLoads, nCalcs,
                  calcsInBatch, writes, emits, file, mf, res >>

\* The except branch of CSVWorker.run: the file is closed and error(fullpath)
\* is emitted.
CsvRaise == csv' = [NoCsv EXCEPT !.pc = "failed"]

\* CSVWorker.run up to the for statement: open(fullpath, "w") either raises
\* (the folder is not writable) or the header line is written and the iterator
\* of self.data.items() is created.
CSVWorker_open ==
  /\ csv.pc = "queued"
  /\ \/ /\ CsvRaise
        /\ UNCHANGED csvfile
     \/ /\ csvfile' = <<Join(table_headers)>>
        /\ csv' = [csv EXCEPT !.pc = "next", !.n0 = Len(CsvData.keys), !.i = 0]
  /\ UNCHANGED << dir, data, state, tableWidget, pool, main, nLoads, nCalcs,
                  nExports, calcsInBatch, writes, csvSeen, emits,
                  file, mf, res >>

\* One step of the dict iterator: RuntimeError when the dict changed size since
\* the iterator was created, the end of the loop (result([fullpath]) is
\* emitted), or the next (filename, result) pair.
CSVWorker_next ==
  /\ csv.pc = "next"
  /\ IF Len(CsvData.keys) # csv.n0
     THEN CsvRaise
     ELSE IF csv.i >= Len(CsvData.keys)
          THEN csv' = [NoCsv EXCEPT !.pc = "done"]
          ELSE csv' = [csv EXCEPT
                         !.pc = "check", !.i = @ + 1,
                         !.cur = << CsvData.keys[csv.i + 1],
                                    CsvData.val[CsvData.keys[csv.i + 1]] >>]
  /\ UNCHANGED << dir, data, state, tableWidget, pool, main, csvfile, nLoads,
                  nCalcs, nExports, calcsInBatch, writes, csvSeen, emits,
                  file, mf, res >>

\* The body of the loop: self.state[filename] (KeyError on a missing key); a
\* DONE entry's fields are joined and written, any other entry is skipped.
CSVWorker_check ==
  /\ csv.pc = "check"
  /\ IF csv.cur[1] \notin DOMAIN CsvState
     THEN CsvRaise /\ UNCHANGED csvfile
     ELSE /\ csv' = [csv EXCEPT !.pc = "next", !.cur = <<>>]
          /\ csvfile' = IF CsvState[csv.cur[1]] = "DONE"
                        THEN Append(csvfile, Join(csv.cur[2])) ELSE csvfile
  /\ UNCHANGED << dir, data, state, tableWidget, pool, main, nLoads, nCalcs,
                  nExports, calcsInBatch, writes, csvSeen, emits,
                  file, mf, res >>

\* MFWidget.sucess_csv, on the CSVWorker's result signal: prints the path.
sucess_csv ==
  /\ main.pc = "idle"
  /\ csv.pc = "done"
  /\ csv' = NoCsv
  /\ csvfile' = <<>>
  /\ csvSeen' = {}
  /\ UNCHANGED << dir, data, state, tableWidget, pool, main, nLoads, nCalcs,
                  nExports, calcsInBatch, writes, emits, file, mf, res >>

\* MFWidget.update_error on the CSVWorker's error signal: the full path of the
\* export file becomes a key of self.state.
update_error_csv ==
  /\ main.pc = "idle"
  /\ csv.pc = "failed"
  /\ state' = SetState(state, FullPath, "ERROR")
  /\ csv' = NoCsv
  /\ csvfile' = <<>>
  /\ csvSeen' = {}
  /\ UNCHANGED << dir, data, tableWidget, pool, main, nLoads, nCalcs,
                  nExports, calcsInBatch, writes, emits, file, mf, res >>

Next ==
  \/ \E d \in Dirs : \E files \in Listings(d) : load_files(d, files)
  \/ calculate
  \/ \E w \in Workers : update_row_data(w)
  \/ update_row_state
  \/ \E w \in Workers : update_error(w)
  \/ timeout
  \/ export_csv
  \/ CSVWorker_open
  \/ CSVWorker_next
  \/ CSVWorker_check
  \/ sucess_csv
  \/ update_error_csv

Spec == Init /\ [][Next]_vars

\* The batch run alone: folders are loaded, Calculate is clicked, the workers'
\* signals are delivered and the timer refreshes the widget; nothing is
\* exported.
BatchNext ==
  \/ \E d \in Dirs : \E files \in Listings(d) : load_files(d, files)
  \/ calculate
  \/ \E w \in Workers : update_row_data(w)
  \/ update_row_state
  \/ \E w \in Workers : update_error(w)
  \/ timeout

\* The scheduling the program runs under: the thread pool runs every worker it
\* was given and the event loop of the main thread delivers every queued signal
\* and finishes every slot it entered.  The user and the timer owe nothing.
Fairness ==
  /\ \A w \in Workers : WF_vars(update_row_data(w) \/ update_error(w))
  /\ WF_vars(update_row_state)

FairSpec == Init /\ [][BatchNext]_vars /\ Fairness

(***************************************************************************)
(* The engine on its own: one FileWorker given one file, and the methods   *)
(* of MembraneFouling applied to the record it parsed                      *)
(***************************************************************************)

\* Bound of the model: the number of sample lines of a file.
MaxRows == 3

\* A sample line with a non-numeric field, one with three fields and one with
\* five.
BadLine == <<"3", "0", "0", ",", "x", ",", "1", ",", "2">>
ShortLine == Join(<<Digits(0), Digits(0), Digits(0)>>)
LongLine == Join(<<Digits(0), Digits(0), Digits(0), Digits(20), Digits(7)>>)

\* The sample lines the files of the engine are made of.
SampleLines ==
  { Row(0, 0, 0, 20), Row(300, 0, 150, 20), Row(600, 0, 500, 20),
    Row(900, 0, 700, 20), Row(300, 0, 600, 20), BadLine, ShortLine, LongLine }

\* The sample lines of a file: up to MaxRows lines, or the five samples of the
\* documented metric check.
SampleSeqs ==
  UNION { [1..n -> SampleLines] : n \in 0..MaxRows }
    \cup { SubSeq(GoodRun.lines, Len(Preamble) + 1, Len(GoodRun.lines)) }

\* A file name with a comma in it.
FileAB == <<"a", ",", "b">>

\* The columns and the targets search is applied to.
Columns == {TIME, PRESSURE, VOLUME, TEMPERATURE}
Targets == {0, 300, 500}

\* The calc_* methods by name.
Metrics ==
  {"calc_ti", "calc_tf5", "calc_tf15", "calc_sdi5", "calc_sdi15", "calc_mfi",
   "calc_avg_temp"}

Metric(m, d) ==
  CASE m = "calc_ti" -> calc_ti(d)
    [] m = "calc_tf5" -> calc_tf5(d)
    [] m = "calc_tf15" -> calc_tf15(d)
    [] m = "calc_sdi5" -> calc_sdi5(d)
    [] m = "calc_sdi15" -> calc_sdi15(d)
    [] m = "calc_mfi" -> calc_mfi(d)
    [] m = "calc_avg_temp" -> calc_avg_temp(d)

\* The widget is left alone.
widget == << dir, data, state, tableWidget, pool, main, csv, csvfile, nLoads,
             nCalcs, nExports, calcsInBatch, writes, csvSeen, emits >>

\* A FileWorker is given a file of the bounded set.
EngineInit ==
  /\ WidgetInit
  /\ \E name \in {FileA, FileAB} : \E rows \in SampleSeqs :
       file = [name |-> name, readable |-> TRUE, lines |-> Preamble \o rows]
  /\ mf = NotParsed
  /\ res = NoRes

\* FileWorker.parse
FileWorker_parse ==
  /\ ~mf.done
  /\ mf' = [done |-> TRUE, r |-> Parse(file)]
  /\ UNCHANGED << widget, file, res >>

\* MembraneFouling.search applied to the parsed record (one operation is
\* applied to a record: the methods change nothing).
mf_search(column, value) ==
  /\ mf.done /\ mf.r.ok /\ res.op = "none"
  /\ res' = [op |-> "search", column |-> column, value |-> value,
             out |-> search(mf.r.v.data, column, value)]
  /\ UNCHANGED << widget, file, mf >>

\* One of the calc_* methods applied to the parsed record.
mf_calc(m) ==
  /\ mf.done /\ mf.r.ok /\ res.op = "none"
  /\ res' = [op |-> m, column |-> 0, value |-> 0, out |-> Metric(m, mf.r.v.data)]
  /\ UNCHANGED << widget, file, mf >>

\* FileWorker.run on the file: parse, the fourteen fields, the signal.
FileWorker_run ==
  /\ res.op = "none"
  /\ res' = [op |-> "run", column |-> 0, value |-> 0,
             out |-> Result(file.name, file)]
  /\ UNCHANGED << widget, file, mf >>

\* The line CSVWorker.run writes for the fields the run emitted, and that line
\* split on the delimiter again.
CSVWorker_line ==
  /\ res.op = "run" /\ res.out.sig = "result"
  /\ res' = [op |-> "csv", column |-> 0, value |-> 0,
             out |-> [fields |-> res.out.arg, line |-> Join(res.out.arg),
                      back |-> Split(Join(res.out.arg))]]
  /\ UNCHANGED << widget, file, mf >>

EngineNext ==
  \/ FileWorker_parse
  \/ \E column \in Columns : \E value \in Targets : mf_search(column, value)
  \/ \E m \in Metrics : mf_calc(m)
  \/ FileWorker_run
  \/ CSVWorker_line

EngineSpec == EngineInit /\ [][EngineNext]_vars

(***************************************************************************)
(* The claims                                                              *)
(***************************************************************************)

Terminal == {"DONE", "ERROR"}

\* No FileWorker is pending and the main thread is in no slot.
Quiet == main.pc = "idle" /\ \A w \in Workers : pool[w] = 0

\* C1: DONE and ERROR are terminal: between two loads, once a key's state is
\* DONE or ERROR no step changes it to a different state.
C1_TerminalStatesStay ==
  [][nLoads' = nLoads =>
       \A k \in DOMAIN state :
         state[k] \in Terminal => k \in DOMAIN state' /\ state'[k] = state[k]]_vars

\* C2: within one batch every file name receives at most one delivery
\* (update_row or update_error) from the workers of that batch, however many
\* times calculate is called.
C2_SingleWritePerKey == \A f \in Names : writes[f] <= 1

\* C3: a delivery from a worker that was started before the last load_files
\* changes neither the fields nor the state of any entry of the table, and
\* adds no key to it.
C3_StaleWorkersDoNotWrite ==
  [][/\ \A w \in Workers :
          w.batch < nLoads /\ pool'[w] < pool[w] => data' = data /\ state' = state
     /\ main.pc = "update_row" /\ main.w.batch < nLoads => state' = state]_vars

\* C4: under the program's scheduling, an entry that is NEW and has a worker of
\* its batch pending eventually is DONE or ERROR, whatever the other files are.
C4_EveryNewEntryEnds ==
  \A w \in Workers :
    (pool[w] > 0 /\ w.batch = nLoads /\ w.filename \in DOMAIN state
       /\ state[w.filename] = "NEW")
      ~> (w.filename \in DOMAIN state /\ state[w.filename] \in Terminal)

\* A batch with a failing and a succeeding file has run to its end.
C4_Witness ==
  /\ dir = "d3" /\ Quiet
  /\ DOMAIN state = {FileB, FileC}
  /\ state[FileB] = "ERROR" /\ state[FileC] = "DONE"

\* C5: after one load_files and one calculate, once every worker's signal is
\* delivered, each entry is DONE exactly when the run over its own file
\* succeeds, and ERROR otherwise, whatever the other files and the order of
\* completion.
C5_FailureIsolation ==
  (nLoads = 1 /\ calcsInBatch = 1 /\ Quiet) =>
    \A f \in Keys(data) :
      state[f] = IF emits[dir][f].sig = "result" THEN "DONE" ELSE "ERROR"

\* One load of the folder with a failing and a succeeding file, one calculate,
\* all signals delivered.
C5_Witness ==
  /\ nLoads = 1 /\ calcsInBatch = 1 /\ Quiet /\ dir = "d3"
  /\ emits[dir][FileB].sig = "error" /\ emits[dir][FileC].sig = "result"
  /\ state[FileB] = "ERROR" /\ state[FileC] = "DONE"

\* C6: calculate starts exactly one worker for every entry that is NEW and none
\* for an entry that is DONE or ERROR.
C6_OnlyNewEntriesScheduled ==
  [][nCalcs' = nCalcs + 1 =>
       \A w \in Workers :
         pool'[w] - pool[w] =
           IF /\ w.batch = nLoads /\ w.path = dir /\ w.filename \in Keys(data)
              /\ state[w.filename] = "NEW"
           THEN 1 ELSE 0]_vars

\* C7: load_files replaces the table: right after it the keys of self.data and
\* of self.state are the names of the listed folder, each once, every entry is
\* NEW with its name as first field and thirteen blank fields, and no worker
\* was started.
C7_LoadReplacesTable ==
  [][nLoads' = nLoads + 1 =>
       /\ dir' \in Dirs
       /\ Keys(data') = DOMAIN Disk[dir']
       /\ Len(data'.keys) = Cardinality(DOMAIN Disk[dir'])
       /\ DOMAIN data'.val = DOMAIN Disk[dir']
       /\ DOMAIN state' = DOMAIN Disk[dir']
       /\ \A f \in DOMAIN Disk[dir'] :
            /\ state'[f] = "NEW"
            /\ Len(data'.val[f]) = Len(table_headers)
            /\ data'.val[f][1] = f
            /\ \A i \in 2..Len(table_headers) : data'.val[f][i] = <<>>
       /\ pool' = pool]_vars

\* A second load, of a smaller folder, while a worker of the first batch is
\* still pending.
C7_Witness ==
  /\ nLoads = 2 /\ calcsInBatch = 0 /\ dir = "d2"
  /\ DOMAIN state = {FileA} /\ state[FileA] = "NEW"
  /\ writes = [f \in Names |-> 0]
  /\ \E w \in Workers : w.batch = 1 /\ pool[w] > 0

\* The lines an export of the DONE entries e is to hold after the header: one
\* per entry, in the order of sorted names.
SortedLines(e) ==
  LET ks == SortedSet(DOMAIN e) IN [i \in 1..Len(ks) |-> Join(e[ks[i]])]

\* C8: an export during which the table did not change leaves a file holding
\* the header line and then one line per DONE entry, in the lexicographic order
\* of the names.
C8_ExportSortedDoneLines ==
  (csv.pc = "done" /\ Cardinality(csvSeen) = 1) =>
    \A e \in csvSeen : csvfile = <<Join(table_headers)>> \o SortedLines(e)

\* C9: a finished export holds exactly the DONE entries, with their fields, of
\* the table as it was at one instant between export_csv and the end of the run.
C9_ExportIsSnapshot ==
  csv.pc = "done" =>
    \E e \in csvSeen :
      /\ Len(csvfile) = 1 + Cardinality(DOMAIN e)
      /\ { csvfile[i] : i \in 2..Len(csvfile) } = { Join(e[k]) : k \in DOMAIN e }

\* C10: a refresh (update_table, from the timer or at the end of load_files)
\* leaves the widget with one row per entry of the table, in the lexicographic
\* order of the names, each with the entry's fields and state, and the timer's
\* refresh leaves the table as it is.
C10_SnapshotSortedRows ==
  [][tableWidget' # tableWidget =>
       LET it == tableWidget'.items
       IN  /\ tableWidget'.rowCount = Cardinality(Keys(data'))
           /\ Len(it) = Cardinality(Keys(data'))
           /\ \A r \in 1..Len(it) :
                /\ it[r].text[1] \in Keys(data')
                /\ it[r].text = data'.val[it[r].text[1]]
                /\ it[r].state = state'[it[r].text[1]]
           /\ \A r \in 1..(Len(it) - 1) : StrLess(it[r].text[1], it[r + 1].text[1])
           /\ nLoads' = nLoads => data' = data /\ state' = state]_vars

\* The rows that hold items after a refresh are the entries, sorted, and the
\* refresh changes neither self.data nor self.state: C10 but for the number of
\* rows of the widget.
FilledRowsSorted ==
  [][tableWidget' # tableWidget =>
       LET it == tableWidget'.items
       IN  /\ Len(it) = Cardinality(Keys(data'))
           /\ \A r \in 1..Len(it) :
                /\ it[r].text[1] \in Keys(data')
                /\ it[r].text = data'.val[it[r].text[1]]
                /\ it[r].state = state'[it[r].text[1]]
           /\ \A r \in 1..(Len(it) - 1) : StrLess(it[r].text[1], it[r + 1].text[1])
           /\ nLoads' = nLoads => data' = data /\ state' = state]_vars

(***************************************************************************)
(* The claims on the engine, checked under EngineSpec                      *)
(***************************************************************************)

\* The samples of the record the engine parsed.
Samples == mf.r.v.data

\* A record as the documentation has it: at least two samples, each of four
\* values.
IsRecord(d) == Len(d) >= 2 /\ \A i \in 1..Len(d) : Len(d[i]) = 4

\* The positions (from 1) of the samples of d nearest to v in a column, and the
\* lowest of them.
Closest(d, column, v) ==
  { i \in 1..Len(d) :
      \A j \in 1..Len(d) : Abs(d[i][column + 1] - v) <= Abs(d[j][column + 1] - v) }

FirstClosest(d, column, v) ==
  CHOOSE i \in Closest(d, column, v) : \A j \in Closest(d, column, v) : i <= j

\* C11: on a record of at least two samples, search(column, v) returns the
\* sample nearest to v in that column, the one at the lowest position when
\* several are equally near.
C11_SearchFirstClosest ==
  (res.op = "search" /\ IsRecord(Samples)) =>
    /\ res.out.ok
    /\ res.out.v = Samples[FirstClosest(Samples, res.column, res.value)]

\* C12: calc_sdi5 raises when calc_tf5 is 0 and calc_sdi15 raises when
\* calc_tf15 is 0, and FileWorker.run on such a file emits error, not result.
C12_SdiFailsOnZeroTf ==
  /\ (res.op = "calc_sdi5" /\ calc_tf5(Samples) = Ok(0)) => ~res.out.ok
  /\ (res.op = "calc_sdi15" /\ calc_tf15(Samples) = Ok(0)) => ~res.out.ok
  /\ (res.op = "run" /\ Parse(file).ok
        /\ (calc_tf5(Parse(file).v.data) = Ok(0)
              \/ calc_tf15(Parse(file).v.data) = Ok(0)))
       => res.out.sig = "error"

\* calc_sdi5 was applied to a record whose tf5 is 0, and raised.
C12_Witness ==
  /\ res.op = "calc_sdi5" /\ IsRecord(Samples)
  /\ calc_tf5(Samples) = Ok(0) /\ ~res.out.ok

\* C13: on a record of at least two samples, calc_ti is the TIME of a sample
\* whose VOLUME is nearest to 500 (600 on the documented samples), and calc_tf5
\* is, less 300, the TIME of a sample whose VOLUME is nearest to 500 more than
\* the VOLUME of a sample nearest to TIME 300.
C13_TiAndTf5 ==
  /\ (res.op = "calc_ti" /\ IsRecord(Samples)) =>
       /\ res.out.ok
       /\ \E i \in Closest(Samples, VOLUME, 500) :
            res.out.v = Samples[i][TIME + 1]
  /\ (res.op = "calc_tf5" /\ IsRecord(Samples)) =>
       /\ res.out.ok
       /\ \E i \in Closest(Samples, TIME, 300) :
            \E j \in Closest(Samples, VOLUME, Samples[i][VOLUME + 1] + 500) :
              res.out.v = Samples[j][TIME + 1] - 300
  /\ (res.op = "calc_ti" /\ file.lines = GoodRun.lines) => res.out = Ok(600)

\* calc_ti was applied to the documented samples and returned 600.
C13_Witness ==
  res.op = "calc_ti" /\ file.lines = GoodRun.lines /\ res.out = Ok(600)

\* The tokens of a sample line are four numbers.
FourNumbers(line) ==
  /\ Len(Split(line)) = 4
  /\ \A i \in 1..Len(Split(line)) : ParseFloat(Split(line)[i]).ok

\* C14: the parse fails when a sample line has a non-numeric field or does not
\* have four fields, and a record the parse returns has samples of four values
\* only.
C14_ParseRejectsBadRows ==
  mf.done =>
    /\ (\E i \in (Len(Preamble) + 1)..Len(file.lines) :
          ~FourNumbers(file.lines[i])) => ~mf.r.ok
    /\ mf.r.ok => \A i \in 1..Len(Samples) : Len(Samples[i]) = 4

\* C15: the line written for a DONE entry, split on the delimiter, gives back
\* the entry's fields: as many of them, the same strings.
C15_ExportRoundTrip ==
  res.op = "csv" => res.out.back = res.out.fields

\* The number of samples calc_mfi fits: those from the position search_index
\* gives for TIME 300 to the one it gives for TIME 900.
Window(d) ==
  LET a == search_index(d, TIME, 300).v.index
      b == search_index(d, TIME, 900).v.index
  IN  IF a > b THEN 0 ELSE b - a + 1

\* C18: calc_mfi raises when the window between the two anchors holds fewer
\* than two samples.
C18_MfiNeedsTwoSamples ==
  (res.op = "calc_mfi" /\ IsRecord(Samples) /\ Window(Samples) < 2) => ~res.out.ok

\* The part of C18 for the empty window: calc_mfi raises when the anchor for
\* TIME 300 lies after the anchor for TIME 900.
MfiFailsOnEmptyWindow ==
  (res.op = "calc_mfi" /\ IsRecord(Samples) /\ Window(Samples) = 0) => ~res.out.ok

(***************************************************************************)
(* The claims on the table of the widget, checked under Spec               *)
(***************************************************************************)

\* C16: whenever the main thread is in no slot, every entry that is DONE has
\* fourteen fields, none of them blank, and every entry that is ERROR has its
\* name as first field and the other fields blank.
C16_DoneFullErrorBlank ==
  main.pc = "idle" =>
    \A k \in Keys(data) \cap DOMAIN state :
      /\ state[k] = "DONE" =>
           /\ Len(data.val[k]) = Len(table_headers)
           /\ \A i \in 1..Len(data.val[k]) : data.val[k][i] # <<>>
      /\ state[k] = "ERROR" => data.val[k] = BlankFields(k)

\* C17: the entry stored under key k of self.data has k as its first field.
C17_FirstFieldIsKey == \A k \in Keys(data) : data.val[k][1] = k

\* The table of folder d2, which holds no b, has an entry b: update_row stored
\* the result of a worker of the batch before under its first field.
C17_Witness ==
  /\ dir = "d2" /\ FileB \in Keys(data)
  /\ data.val[FileB] = emits["d1"][FileB].arg

\* C19: whenever the main thread is in no slot, self.data and self.state have
\* the same keys.
C19_SameKeys == main.pc = "idle" => Keys(data) = DOMAIN state

\* C20: no step of an export (export_csv, the run of the CSVWorker, the
\* delivery of its result or error signal) changes self.data or self.state.
C20_ExportLeavesTable ==
  [][(nExports' # nExports \/ (csv' # csv /\ nLoads' = nLoads))
       => data' = data /\ state' = state]_vars

====
